---- MODULE Spec2Model ----
(***************************************************************************)
(* Frame API (src/backend/main.py): registration, login, bearer-token      *)
(* authentication, the movie endpoints and the Database connection pool.   *)
(*                                                                         *)
(* Three specifications share the module:                                  *)
(*   Spec      the request handlers over the storage rows and the clock;   *)
(*             a handler is cut at its awaits, one action per segment      *)
(*   SpecPool  Database.execute / fetch / fetchrow cut at the pool's       *)
(*             acquire and release, with other callers loading the pool    *)
(*   SpecLife  Database.connect / Database.disconnect cut at their await   *)
(***************************************************************************)
EXTENDS Integers, Sequences, FiniteSets, TLC

\* ---------------------------------------------------------------- bounds

NReq == 2
\* Callers whose calls are followed step by step, the calls each makes, and
\* the other calls that can be in flight beside them.
NCallers == 2
MaxCalls == 2
MaxOthers == 21
\* Tasks calling connect() and disconnect(), and the pools they may create.
NTasks == 3
MaxPools == 3
\* Clock resolution: ticks per second (the code's clocks have microseconds).
TicksPerSecond == 3
\* The instants explored: the first EarlyTicks ticks, then the ticks around
\* the expiry of a token issued in them.
EarlyTicks == 2
LateSlack == 1
MaxInitViews == 1

\* ------------------------------------------------------- program constants

ACCESS_TOKEN_EXPIRE_MINUTES == 30
SecondsPerMinute == 60
SECRET_KEY == "SECRET_KEY"
ALGORITHM == "HS256"

TTLSeconds == ACCESS_TOKEN_EXPIRE_MINUTES * SecondsPerMinute
TTLTicks == TTLSeconds * TicksPerSecond

\* ------------------------------------------------------------------ state

VARIABLES
    \* storage (owned by the database engine)
    users, movies, nextUserId, nextMovieId,
    \* server time in ticks, and every token create_access_token has returned
    \* together with the instant of the call
    clock, issued,
    \* the views_count each movie row had when the service started
    initial_views,
    \* per request: position, operation and input, locals, response
    pc, op, arg, cred, user_id, current_user, movie, resp

appVars == <<users, movies, nextUserId, nextMovieId, clock, issued, initial_views,
             pc, op, arg, cred, user_id, current_user, movie, resp>>

\* the pool's accounting while requests are served
VARIABLES
    \* per caller: position in its call, the method called, the connections
    \* its call holds, the calls it has finished
    kpc, kmethod, held, kcalls,
    \* the connections checked out by the other calls in flight
    others

poolVars == <<kpc, kmethod, held, kcalls, others>>

\* the pool's lifecycle
VARIABLES
    \* Database.pool (0: None), the pools created and not closed, the number
    \* of pools created
    cls_pool, open_pools, created,
    \* per task: position, and the pool object its disconnect() is closing
    tpc, tpool

lifeVars == <<cls_pool, open_pools, created, tpc, tpool>>

vars == <<appVars, poolVars, lifeVars>>

Requests == 1..NReq

Emails == {"a@x.com", "b@x.com"}
Usernames == {"alice"}
Passwords == {"secret1", "secret2"}
Genres == {"Comedy"}

NoUser == [id |-> 0, email |-> "", username |-> "", password_hash |-> [alg |-> "", of |-> ""],
           created_at |-> 0, is_active |-> FALSE]
NoMovie == [id |-> 0, genre |-> "", created_at |-> 0, user_id |-> 0, views_count |-> 0]
NoArg == [email |-> "", username |-> "", password |-> "", movie_id |-> 0, genre |-> ""]
NoCred == [kind |-> "none", sub |-> 0, exp |-> 0, key |-> "", alg |-> ""]
NoResp == [status |-> 0, body |-> [kind |-> "none"]]

\* --------------------------------------------------------------- the clock

\* The instants at which the model lets something happen.
Instants ==
    (0..EarlyTicks) \cup ((TTLTicks - LateSlack)..(TTLTicks + EarlyTicks + LateSlack))

LastInstant == TTLTicks + EarlyTicks + LateSlack

\* The request handlers are explored at two instants, before and after the
\* expiry of the tokens issued at the first.
CoarseInstants == {0, LastInstant}

NextInstant(instants, t) ==
    CHOOSE i \in instants : i > t /\ \A j \in instants : j > t => i <= j

\* Server time passes (datetime.utcnow() / datetime.now() read it) to the
\* next of the instants explored.
Tick(instants) ==
    /\ \E i \in instants : i > clock
    /\ clock' = NextInstant(instants, clock)
    /\ UNCHANGED <<poolVars, lifeVars, users, movies, nextUserId, nextMovieId, issued, initial_views,
                   pc, op, arg, cred, user_id, current_user, movie, resp>>

\* ------------------------------------------------------ credential hasher

\* bcrypt.hashpw(password, salt): a one-way digest of the password.
hash_password(password) == [alg |-> "bcrypt", of |-> password]

\* bcrypt.checkpw(plain, hashed)
verify_password(plain_password, hashed_password) ==
    hashed_password = hash_password(plain_password)

\* ----------------------------------------------------------- token service

\* jwt.encode: a datetime "exp" claim is written as whole seconds since the
\* epoch (timegm(exp.utctimetuple())), the fraction of a second is dropped;
\* the payload is signed with the key under the algorithm.
jwt_encode(sub, expire, key, algorithm) ==
    [kind |-> "jwt", sub |-> sub, exp |-> expire \div TicksPerSecond,
     key |-> key, alg |-> algorithm]

\* Mutant: the lifetime added as seconds instead of minutes.
create_access_token_seconds(sub, now) ==
    jwt_encode(sub, now + ACCESS_TOKEN_EXPIRE_MINUTES * TicksPerSecond, SECRET_KEY, ALGORITHM)

\* create_access_token({"sub": sub}) called at instant now.
create_access_token(sub, now) ==
    jwt_encode(sub, now + TTLTicks, SECRET_KEY, ALGORITHM)

\* Mutant: the signature is not checked against the key.
jwt_decode_unsigned(token, now) ==
    /\ token.kind = "jwt"
    /\ ~(token.exp * TicksPerSecond <= now)

\* jwt.decode(token, SECRET_KEY, algorithms=[ALGORITHM]) at instant now:
\* TRUE when it returns the payload, FALSE when it raises a PyJWTError
\* (malformed token, signature of another key or algorithm, exp <= now).
\* The type of "sub" is not validated here, as in PyJWT before 2.10; from
\* 2.10 on decode refuses a "sub" that is no string, and the integer ids
\* this service puts in its tokens with it.
jwt_decode_ok(token, now) ==
    /\ token.kind = "jwt"
    /\ token.key = SECRET_KEY
    /\ token.alg = ALGORITHM
    /\ ~(token.exp * TicksPerSecond <= now)

\* A far expiry for the tokens the service did not issue.
FarFuture == (LastInstant \div TicksPerSecond) + TTLSeconds

\* What a client can put in the Authorization header: nothing, a non-Bearer
\* scheme, a Bearer string that is no JWT, a JWT signed with another key, a
\* JWT signed with another algorithm, a JWT of this key without "sub", or a
\* token the service has issued.
AbsentCred == [kind |-> "absent", sub |-> 0, exp |-> 0, key |-> "", alg |-> ""]
BadSchemeCred == [kind |-> "badscheme", sub |-> 0, exp |-> 0, key |-> "", alg |-> ""]
GarbageCred == [kind |-> "garbage", sub |-> 0, exp |-> 0, key |-> "", alg |-> ""]
ForgedCreds ==
    { [kind |-> "jwt", sub |-> 1, exp |-> FarFuture, key |-> "other-key", alg |-> ALGORITHM],
      [kind |-> "jwt", sub |-> 1, exp |-> FarFuture, key |-> "", alg |-> "none"],
      [kind |-> "jwt", sub |-> 0, exp |-> FarFuture, key |-> SECRET_KEY, alg |-> ALGORITHM] }
Credentials ==
    {AbsentCred, BadSchemeCred, GarbageCred} \cup ForgedCreds \cup {i.tok : i \in issued}

\* ----------------------------------------------------------------- storage

\* fetchrow: the first row of the result, or None.
OneOrNone(rows, none) == IF rows = {} THEN {none} ELSE rows

\* The users table's unique constraint on email: an INSERT of an email that
\* is already stored raises UniqueViolationError.
EmailUniqueViolation(email) == \E u \in users : u.email = email

InitialUser ==
    [id |-> 1, email |-> "a@x.com", username |-> "alice",
     password_hash |-> hash_password("secret1"), created_at |-> 0, is_active |-> TRUE]

InitialMovie(v) ==
    [id |-> 1, genre |-> "Drama", created_at |-> 0, user_id |-> 1, views_count |-> v]

\* The service has been running: alice is registered, one movie of hers is
\* stored, and she logged in at instant 0.
InitApp ==
    /\ users = {InitialUser}
    /\ \E v \in 0..MaxInitViews : movies = {InitialMovie(v)} /\ initial_views = v
    /\ nextUserId = 2
    /\ nextMovieId = 2
    /\ clock = 0
    /\ issued = {[tok |-> create_access_token(InitialUser.id, 0), at |-> 0]}
    /\ pc = [r \in Requests |-> "idle"]
    /\ op = [r \in Requests |-> "none"]
    /\ arg = [r \in Requests |-> NoArg]
    /\ cred = [r \in Requests |-> NoCred]
    /\ user_id = [r \in Requests |-> 0]
    /\ current_user = [r \in Requests |-> NoUser]
    /\ movie = [r \in Requests |-> NoMovie]
    /\ resp = [r \in Requests |-> NoResp]

Callers == 1..NCallers
Tasks == 1..NTasks

\* No call in flight, every connection in the pool.
InitPool ==
    /\ kpc = [k \in Callers |-> "idle"]
    /\ kmethod = [k \in Callers |-> ""]
    /\ held = [k \in Callers |-> 0]
    /\ kcalls = [k \in Callers |-> 0]
    /\ others = 0

\* Database.pool: Optional[asyncpg.Pool] = None
InitLife ==
    /\ cls_pool = 0
    /\ open_pools = {}
    /\ created = 0
    /\ tpc = [t \in Tasks |-> "idle"]
    /\ tpool = [t \in Tasks |-> 0]

Init == InitApp /\ InitPool /\ InitLife

\* An HTTPException(status_code, detail) as the response.
HTTPError(status_code, detail) ==
    [status |-> status_code, body |-> [kind |-> "error", detail |-> detail]]

\* An exception no handler catches: the server answers 500.
InternalServerError == [status |-> 500, body |-> [kind |-> "error", detail |-> "Internal Server Error"]]

TokenResponse(token) == [status |-> 200, body |-> [kind |-> "token", access_token |-> token]]

\* Administrative deactivation of a user (outside this service).
AdminDeactivate(id) ==
    /\ \E u \in users : u.id = id /\ u.is_active
    /\ users' = {IF u.id = id THEN [u EXCEPT !.is_active = FALSE] ELSE u : u \in users}
    /\ UNCHANGED <<poolVars, lifeVars, movies, nextUserId, nextMovieId, clock, issued, initial_views,
                   pc, op, arg, cred, user_id, current_user, movie, resp>>

\* ---------------------------------------------------------------- register

\* register up to its first await: SELECT id FROM users WHERE email = $1;
\* a row found is the 400.
RegisterCheck(r, email, username, password) ==
    /\ pc[r] = "idle"
    /\ op' = [op EXCEPT ![r] = "register"]
    /\ arg' = [arg EXCEPT ![r] = [NoArg EXCEPT !.email = email, !.username = username,
                                               !.password = password]]
    /\ \E existing \in OneOrNone({u \in users : u.email = email}, NoUser) :
          IF existing.id # 0
          THEN /\ pc' = [pc EXCEPT ![r] = "done"]
               /\ resp' = [resp EXCEPT ![r] = HTTPError(400, "Email already registered")]
          ELSE /\ pc' = [pc EXCEPT ![r] = "register_insert"]
               /\ resp' = resp
    /\ UNCHANGED <<poolVars, lifeVars, users, movies, nextUserId, nextMovieId, clock, issued, initial_views,
                   cred, user_id, current_user, movie>>

\* register after the check: INSERT INTO users ... RETURNING id, then the
\* token. An INSERT the unique constraint refuses raises out of the handler.
RegisterInsert(r) ==
    /\ pc[r] = "register_insert"
    /\ pc' = [pc EXCEPT ![r] = "done"]
    /\ IF EmailUniqueViolation(arg[r].email)
       THEN /\ resp' = [resp EXCEPT ![r] = InternalServerError]
            /\ UNCHANGED <<users, nextUserId, issued, user_id>>
       ELSE LET new_user == [id |-> nextUserId, email |-> arg[r].email,
                             username |-> arg[r].username,
                             password_hash |-> hash_password(arg[r].password),
                             created_at |-> clock, is_active |-> TRUE]
                access_token == create_access_token(new_user.id, clock)
            IN /\ users' = users \cup {new_user}
               /\ nextUserId' = nextUserId + 1
               /\ issued' = issued \cup {[tok |-> access_token, at |-> clock]}
               /\ user_id' = [user_id EXCEPT ![r] = new_user.id]
               /\ resp' = [resp EXCEPT ![r] = TokenResponse(access_token)]
    /\ UNCHANGED <<poolVars, lifeVars, movies, nextMovieId, clock, initial_views, op, arg, cred, current_user, movie>>

\* ------------------------------------------------------------------- login

\* login: SELECT id, password_hash FROM users WHERE email = $1 AND
\* is_active = true; no row or a wrong password is the 401.
LoginUserRows(email) == {u \in users : u.email = email /\ u.is_active}

Login(r, email, password) ==
    /\ pc[r] = "idle"
    /\ op' = [op EXCEPT ![r] = "login"]
    /\ arg' = [arg EXCEPT ![r] = [NoArg EXCEPT !.email = email, !.password = password]]
    /\ pc' = [pc EXCEPT ![r] = "done"]
    /\ \E user \in OneOrNone(LoginUserRows(email), NoUser) :
          IF user.id = 0 \/ ~verify_password(password, user.password_hash)
          THEN /\ resp' = [resp EXCEPT ![r] = HTTPError(401, "Incorrect email or password")]
               /\ UNCHANGED <<issued, user_id>>
          ELSE LET access_token == create_access_token(user.id, clock)
               IN /\ issued' = issued \cup {[tok |-> access_token, at |-> clock]}
                  /\ user_id' = [user_id EXCEPT ![r] = user.id]
                  /\ resp' = [resp EXCEPT ![r] = TokenResponse(access_token)]
    /\ UNCHANGED <<poolVars, lifeVars, users, movies, nextUserId, nextMovieId, clock, initial_views,
                   cred, current_user, movie>>

\* ------------------------------------------------------------------ movies

\* response_model=Movie: the response keeps the fields of Movie (MovieBase's
\* fields, id, created_at, views_count); a row's user_id is not one of them.
MovieModel(row) ==
    [id |-> row.id, genre |-> row.genre, created_at |-> row.created_at,
     views_count |-> row.views_count]

\* The rows in ORDER BY created_at DESC order; rows of one created_at come in
\* whatever order the engine gives them.
OrderedDesc(rows) ==
    { s \in [1..Cardinality(rows) -> rows] :
        /\ \A i, j \in DOMAIN s : i # j => s[i] # s[j]
        /\ \A i, j \in DOMAIN s : i < j => s[i].created_at >= s[j].created_at }

\* LIMIT limit OFFSET skip
LimitOffset(s, limit, skip) ==
    SubSeq(s, skip + 1, IF skip + limit < Len(s) THEN skip + limit ELSE Len(s))

\* The query inputs tried: the defaults, a genre filter, a second page of one.
ListInputs ==
    { [genre |-> "", limit |-> 100, skip |-> 0],
      [genre |-> "Drama", limit |-> 100, skip |-> 0],
      [genre |-> "", limit |-> 1, skip |-> 1] }

\* get_movies: one SELECT; genre "" stands for the absent (NULL) parameter.
GetMovies(r, q) ==
    /\ pc[r] = "idle"
    /\ op' = [op EXCEPT ![r] = "get_movies"]
    /\ arg' = [arg EXCEPT ![r] = [NoArg EXCEPT !.genre = q.genre]]
    /\ pc' = [pc EXCEPT ![r] = "done"]
    /\ \E rows \in OrderedDesc({m \in movies : q.genre = "" \/ m.genre = q.genre}) :
          resp' = [resp EXCEPT ![r] =
                     [status |-> 200,
                      body |-> [kind |-> "movies",
                                rows |-> [i \in DOMAIN LimitOffset(rows, q.limit, q.skip) |->
                                            MovieModel(LimitOffset(rows, q.limit, q.skip)[i])]]]]
    /\ UNCHANGED <<poolVars, lifeVars, users, movies, nextUserId, nextMovieId, clock, issued, initial_views,
                   cred, user_id, current_user, movie>>

\* get_movie up to its first await: SELECT * FROM movies WHERE id = $1; no
\* row is the 404.
GetMovieSelect(r, movie_id) ==
    /\ pc[r] = "idle"
    /\ op' = [op EXCEPT ![r] = "get_movie"]
    /\ arg' = [arg EXCEPT ![r] = [NoArg EXCEPT !.movie_id = movie_id]]
    /\ \E row \in OneOrNone({m \in movies : m.id = movie_id}, NoMovie) :
          /\ movie' = [movie EXCEPT ![r] = row]
          /\ IF row.id = 0
             THEN /\ pc' = [pc EXCEPT ![r] = "done"]
                  /\ resp' = [resp EXCEPT ![r] = HTTPError(404, "Movie not found")]
             ELSE /\ pc' = [pc EXCEPT ![r] = "get_movie_update"]
                  /\ resp' = resp
    /\ UNCHANGED <<poolVars, lifeVars, users, movies, nextUserId, nextMovieId, clock, issued, initial_views,
                   cred, user_id, current_user>>

\* Mutant: the counter written from the row the handler selected earlier.
IncrementViews_FromSelected(rows, movie_id, selected) ==
    { IF m.id = movie_id THEN [m EXCEPT !.views_count = selected.views_count + 1] ELSE m : m \in rows }

\* Mutant: the UPDATE without its WHERE clause.
IncrementViews_AllRows(rows, movie_id, selected) ==
    { [m EXCEPT !.views_count = m.views_count + 1] : m \in rows }

\* UPDATE movies SET views_count = views_count + 1 WHERE id = $1: one
\* statement, the engine reads and writes the row's counter in it.
IncrementViews(rows, movie_id, selected) ==
    { IF m.id = movie_id THEN [m EXCEPT !.views_count = m.views_count + 1] ELSE m : m \in rows }

\* get_movie after the select: the UPDATE, then the selected row is returned.
GetMovieUpdate(r) ==
    /\ pc[r] = "get_movie_update"
    /\ movies' = IncrementViews(movies, arg[r].movie_id, movie[r])
    /\ pc' = [pc EXCEPT ![r] = "done"]
    /\ resp' = [resp EXCEPT ![r] = [status |-> 200,
                                    body |-> [kind |-> "movie", row |-> MovieModel(movie[r])]]]
    /\ UNCHANGED <<poolVars, lifeVars, users, nextUserId, nextMovieId, clock, issued, initial_views,
                   op, arg, cred, user_id, current_user, movie>>

\* --------------------------------------------------------- auth middleware

\* security = HTTPBearer(): a request without an Authorization header, or
\* with another scheme than Bearer, is refused before get_current_user runs.
\* The framework answers 403 (FastAPI before 0.122) or 401 (from 0.122 on);
\* the repository pins no release.
HTTPBearerRejectStatus == {401, 403}

HTTPBearerAccepts(c) == c.kind \notin {"absent", "badscheme"}

\* Depends(security): the bearer credential is taken from the request.
ExtractToken(r, c, genre) ==
    /\ pc[r] = "idle"
    /\ op' = [op EXCEPT ![r] = "create_movie"]
    /\ arg' = [arg EXCEPT ![r] = [NoArg EXCEPT !.genre = genre]]
    /\ cred' = [cred EXCEPT ![r] = c]
    /\ IF HTTPBearerAccepts(c)
       THEN /\ pc' = [pc EXCEPT ![r] = "TokenExtracted"]
            /\ resp' = resp
       ELSE /\ pc' = [pc EXCEPT ![r] = "Rejected"]
            /\ \E st \in HTTPBearerRejectStatus :
                  resp' = [resp EXCEPT ![r] = HTTPError(st, "Not authenticated")]
    /\ UNCHANGED <<poolVars, lifeVars, users, movies, nextUserId, nextMovieId, clock, issued, initial_views,
                   user_id, current_user, movie>>

\* Mutant: the outcome of the verification is ignored.
TokenVerifies_Unchecked(token, now) == TRUE

\* get_current_user, the try block: jwt.decode returns a payload and the
\* payload has a "sub".
TokenVerifies(token, now) == jwt_decode_ok(token, now) /\ token.sub # 0

\* get_current_user, the try block: a PyJWTError or a missing sub is the 401.
VerifyToken(r) ==
    /\ pc[r] = "TokenExtracted"
    /\ IF TokenVerifies(cred[r], clock)
       THEN /\ pc' = [pc EXCEPT ![r] = "TokenVerified"]
            /\ user_id' = [user_id EXCEPT ![r] = cred[r].sub]
            /\ resp' = resp
       ELSE /\ pc' = [pc EXCEPT ![r] = "Rejected"]
            /\ user_id' = user_id
            /\ resp' = [resp EXCEPT ![r] = HTTPError(401, "Invalid authentication credentials")]
    /\ UNCHANGED <<poolVars, lifeVars, users, movies, nextUserId, nextMovieId, clock, issued, initial_views,
                   op, arg, cred, current_user, movie>>

\* Mutant: the lookup without its is_active filter.
ActiveUserRows_AnyUser(id) == {u \in users : u.id = id}

\* SELECT * FROM users WHERE id = $1 AND is_active = true
ActiveUserRows(id) == {u \in users : u.id = id /\ u.is_active}

\* get_current_user, the lookup: no row is the 404.
LoadUser(r) ==
    /\ pc[r] = "TokenVerified"
    /\ \E user \in OneOrNone(ActiveUserRows(user_id[r]), NoUser) :
          IF user.id = 0
          THEN /\ pc' = [pc EXCEPT ![r] = "Rejected"]
               /\ resp' = [resp EXCEPT ![r] = HTTPError(404, "User not found")]
               /\ current_user' = current_user
          ELSE /\ pc' = [pc EXCEPT ![r] = "UserLoaded"]
               /\ resp' = resp
               /\ current_user' = [current_user EXCEPT ![r] = user]
    /\ UNCHANGED <<poolVars, lifeVars, users, movies, nextUserId, nextMovieId, clock, issued, initial_views,
                   op, arg, cred, user_id, movie>>

\* get_current_user returns dict(user); the framework enters the handler
\* with it as current_user.
Authorize(r) ==
    /\ pc[r] = "UserLoaded"
    /\ pc' = [pc EXCEPT ![r] = "Authorized"]
    /\ UNCHANGED <<poolVars, lifeVars, users, movies, nextUserId, nextMovieId, clock, issued, initial_views,
                   op, arg, cred, user_id, current_user, movie, resp>>

\* ------------------------------------------------------------ create_movie

\* The row INSERT INTO movies ... RETURNING * stores: the id is the engine's,
\* views_count is not among the inserted columns and takes its default.
NewMovieRow(id, genre, now, creator) ==
    [id |-> id, genre |-> genre, created_at |-> now, user_id |-> creator, views_count |-> 0]

\* What create_movie returns: the function ends after the INSERT, without a
\* return statement.
create_movie_return(new_movie) == NoMovie

\* response_model=Movie applied to the handler's return value: a value that
\* is no Movie fails the response validation, the server answers 500.
MovieResponse(value) ==
    IF value.id = 0
    THEN InternalServerError
    ELSE [status |-> 200, body |-> [kind |-> "movie", row |-> MovieModel(value)]]

\* create_movie, the handler body.
CreateMovieInsert(r) ==
    /\ pc[r] = "Authorized"
    /\ LET new_movie == NewMovieRow(nextMovieId, arg[r].genre, clock, current_user[r].id)
       IN /\ movies' = movies \cup {new_movie}
          /\ movie' = [movie EXCEPT ![r] = new_movie]
          /\ resp' = [resp EXCEPT ![r] = MovieResponse(create_movie_return(new_movie))]
    /\ nextMovieId' = nextMovieId + 1
    /\ pc' = [pc EXCEPT ![r] = "done"]
    /\ UNCHANGED <<poolVars, lifeVars, users, nextUserId, clock, issued, initial_views,
                   op, arg, cred, user_id, current_user>>

\* ----------------------------------------------------------------- Database

\* create_pool(..., max_size=20, ...)
max_size == 20

Methods == {"execute", "fetch", "fetchrow"}

RECURSIVE HeldBy(_)
HeldBy(S) ==
    IF S = {} THEN 0
    ELSE LET k == CHOOSE x \in S : TRUE IN held[k] + HeldBy(S \ {k})

\* The connections out of the pool.
CheckedOut == others + HeldBy(Callers)

\* Database.execute / fetch / fetchrow is called: the call waits in
\* cls.pool.acquire() for a connection.
CallBegin(k, method) ==
    /\ kpc[k] \in {"idle", "returned", "raised"}
    /\ kcalls[k] < MaxCalls
    /\ kpc' = [kpc EXCEPT ![k] = "acquiring"]
    /\ kmethod' = [kmethod EXCEPT ![k] = method]
    /\ UNCHANGED <<appVars, lifeVars, held, kcalls, others>>

\* pool.acquire() hands out a connection when fewer than max_size are out.
Acquire(k) ==
    /\ kpc[k] = "acquiring"
    /\ CheckedOut < max_size
    /\ held' = [held EXCEPT ![k] = held[k] + 1]
    /\ kpc' = [kpc EXCEPT ![k] = "running"]
    /\ UNCHANGED <<appVars, lifeVars, kmethod, kcalls, others>>

\* Mutant: the connection released by a plain call after the statement,
\* which an exception skips.
HeldAfterCall_LeakOnError(h, outcome) == IF outcome = "raised" THEN h ELSE h - 1

\* The connections a call holds once its "async with cls.pool.acquire()"
\* block is left, by return or by exception: the block's exit releases it.
HeldAfterCall(h, outcome) == h - 1

\* The statement ends, with its result or with an exception, and the call
\* leaves the async with block.
CallEnd(k, outcome) ==
    /\ kpc[k] = "running"
    /\ held' = [held EXCEPT ![k] = HeldAfterCall(held[k], outcome)]
    /\ kpc' = [kpc EXCEPT ![k] = outcome]
    /\ kmethod' = [kmethod EXCEPT ![k] = ""]
    /\ kcalls' = [kcalls EXCEPT ![k] = kcalls[k] + 1]
    /\ UNCHANGED <<appVars, lifeVars, others>>

\* Another request's call acquires a connection ...
OtherAcquire ==
    /\ others < MaxOthers
    /\ CheckedOut < max_size
    /\ others' = others + 1
    /\ UNCHANGED <<appVars, lifeVars, kpc, kmethod, held, kcalls>>

\* ... and ends, releasing it.
OtherRelease ==
    /\ others > 0
    /\ others' = others - 1
    /\ UNCHANGED <<appVars, lifeVars, kpc, kmethod, held, kcalls>>

NextPool ==
    \/ \E k \in Callers, m \in Methods : CallBegin(k, m)
    \/ \E k \in Callers : Acquire(k)
    \/ \E k \in Callers, outcome \in {"returned", "raised"} : CallEnd(k, outcome)
    \/ OtherAcquire
    \/ OtherRelease

SpecPool == Init /\ [][NextPool]_vars

\* Database.connect up to its await: if not cls.pool.
ConnectBegin(t) ==
    /\ tpc[t] = "idle"
    /\ created + Cardinality({u \in Tasks : tpc[u] = "connect_await"}) < MaxPools
    /\ tpc' = [tpc EXCEPT ![t] = IF cls_pool = 0 THEN "connect_await" ELSE "idle"]
    /\ UNCHANGED <<appVars, poolVars, cls_pool, open_pools, created, tpool>>

\* asyncpg.create_pool returns a new pool, which is assigned to cls.pool.
ConnectEnd(t) ==
    /\ tpc[t] = "connect_await"
    /\ created' = created + 1
    /\ open_pools' = open_pools \cup {created + 1}
    /\ cls_pool' = created + 1
    /\ tpc' = [tpc EXCEPT ![t] = "idle"]
    /\ UNCHANGED <<appVars, poolVars, tpool>>

\* Database.disconnect up to its await: if cls.pool, then cls.pool.close()
\* is called on the pool referenced now.
DisconnectBegin(t) ==
    /\ tpc[t] = "idle"
    /\ tpc' = [tpc EXCEPT ![t] = IF cls_pool # 0 THEN "disconnect_await" ELSE "idle"]
    /\ tpool' = [tpool EXCEPT ![t] = cls_pool]
    /\ UNCHANGED <<appVars, poolVars, cls_pool, open_pools, created>>

\* close() has closed that pool; cls.pool = None.
DisconnectEnd(t) ==
    /\ tpc[t] = "disconnect_await"
    /\ open_pools' = open_pools \ {tpool[t]}
    /\ cls_pool' = 0
    /\ tpc' = [tpc EXCEPT ![t] = "idle"]
    /\ tpool' = [tpool EXCEPT ![t] = 0]
    /\ UNCHANGED <<appVars, poolVars, created>>

NextLife ==
    \/ \E t \in Tasks : ConnectBegin(t)
    \/ \E t \in Tasks : ConnectEnd(t)
    \/ \E t \in Tasks : DisconnectBegin(t)
    \/ \E t \in Tasks : DisconnectEnd(t)

SpecLife == Init /\ [][NextLife]_vars

\* ----------------------------------------------------------- specification

Next ==
    \/ Tick(CoarseInstants)
    \/ \E id \in 1..NReq + 1 : AdminDeactivate(id)
    \/ \E r \in Requests, e \in Emails, u \in Usernames, p \in Passwords : RegisterCheck(r, e, u, p)
    \/ \E r \in Requests : RegisterInsert(r)
    \/ \E r \in Requests, e \in Emails, p \in Passwords : Login(r, e, p)
    \/ \E r \in Requests, q \in ListInputs : GetMovies(r, q)
    \/ \E r \in Requests, id \in 1..2 : GetMovieSelect(r, id)
    \/ \E r \in Requests : GetMovieUpdate(r)
    \/ \E r \in Requests, c \in Credentials, g \in Genres : ExtractToken(r, c, g)
    \/ \E r \in Requests : VerifyToken(r)
    \/ \E r \in Requests : LoadUser(r)
    \/ \E r \in Requests : Authorize(r)
    \/ \E r \in Requests : CreateMovieInsert(r)

Spec == Init /\ [][Next]_vars

\* The token's life at the clock's resolution: login issues, the middleware
\* verifies, time passes tick by tick through the instants explored.
NextToken ==
    \/ Tick(Instants)
    \/ AdminDeactivate(InitialUser.id)
    \/ \E r \in Requests : Login(r, InitialUser.email, "secret1")
    \/ \E r \in Requests, i \in issued, g \in Genres : ExtractToken(r, i.tok, g)
    \/ \E r \in Requests : VerifyToken(r)
    \/ \E r \in Requests : LoadUser(r)
    \/ \E r \in Requests : Authorize(r)
    \/ \E r \in Requests : CreateMovieInsert(r)

SpecToken == Init /\ [][NextToken]_vars

\* ------------------------------------------------------------------ claims

\* Request r takes a step of its handler.
Steps(r) == pc'[r] # pc[r]

\* C6 (as claimed): a token create_access_token issued for subject uid is
\* accepted by the verification step, with subject uid, at every instant
\* before 30 minutes have passed since the issuance, and refused with 401 at
\* every instant after its embedded expiration.
C6_AcceptedForWholeTTL ==
    [][\A r \in Requests :
         (pc[r] = "TokenExtracted" /\ Steps(r)) =>
            \A i \in issued :
               i.tok = cred[r] =>
                  /\ clock < i.at + TTLTicks =>
                        pc'[r] = "TokenVerified" /\ user_id'[r] = i.tok.sub
                  /\ clock > i.tok.exp * TicksPerSecond =>
                        pc'[r] = "Rejected" /\ resp'[r].status = 401]_vars

\* The embedded expiration of a token issued at instant at: the issuance plus
\* 30 minutes, cut to the whole second.
EmbeddedExpiry(at) == ((at + TTLTicks) \div TicksPerSecond) * TicksPerSecond

\* C6 (amended): an issued token is accepted by the verification step, with
\* its subject, at every instant before its embedded expiration (issuance +
\* 30 minutes, cut to the whole second) and refused with 401 at every
\* instant from then on, whatever the stored rows are.
C6_AcceptedUntilEmbeddedExpiry ==
    [][\A r \in Requests :
         (pc[r] = "TokenExtracted" /\ Steps(r)) =>
            \A i \in issued :
               i.tok = cred[r] =>
                  IF clock < EmbeddedExpiry(i.at)
                  THEN pc'[r] = "TokenVerified" /\ user_id'[r] = i.tok.sub
                  ELSE pc'[r] = "Rejected" /\ resp'[r].status = 401]_vars

\* C6 witness: an issued token, presented after its expiry, was refused with
\* 401 while its subject is an active user.
C6_Witness ==
    \E r \in Requests :
       /\ pc[r] = "Rejected" /\ resp[r].status = 401
       /\ \E i \in issued : i.tok = cred[r] /\ clock >= EmbeddedExpiry(i.at)
       /\ \E u \in users : u.id = cred[r].sub /\ u.is_active

\* C1: a register request for an email that is already stored ends with the
\* 400 conflict, also when two requests for one email both pass the
\* existence check before either inserts: every finished register request
\* that did not create the user row was answered 400, and no two user rows
\* have one email.
C1_DuplicateEmailIsConflict ==
    /\ \A r \in Requests :
          (op[r] = "register" /\ pc[r] = "done" /\ user_id[r] = 0) => resp[r].status = 400
    /\ \A u, v \in users : u.email = v.email => u = v

\* The get_movie requests that have completed on movie id.
CompletedFetches(id) ==
    {r \in Requests : op[r] = "get_movie" /\ arg[r].movie_id = id /\ pc[r] = "done"
                      /\ resp[r].status = 200}

ViewsAtStart(m) == IF m.id = 1 THEN initial_views ELSE 0

\* C2: whatever the interleaving of the selects and the updates, a movie's
\* views_count is its initial value plus the number of get_movie requests
\* completed on it.
C2_NoLostViewUpdate ==
    \A m \in movies : m.views_count = ViewsAtStart(m) + Cardinality(CompletedFetches(m.id))

\* C2 witness: two get_movie requests on one movie have both completed, and
\* both had selected the row before either updated it.
C2_Witness ==
    \E r, q \in Requests :
       /\ r # q /\ r \in CompletedFetches(1) /\ q \in CompletedFetches(1)
       /\ movie[r] = movie[q]

UserIsActive(id) == \E u \in users : u.id = id /\ u.is_active

\* C3: a request whose token is valid but whose subject is inactive when the
\* user row is looked up is rejected and never reaches the handler body: the
\* lookup step of an inactive subject ends in Rejected without touching the
\* movies, Rejected is final, a request past the lookup holds a row that was
\* active, and a login for an inactive user issues no token.
C3_InactiveUserRejected ==
    /\ [](\A r \in Requests :
            /\ (op[r] = "create_movie" /\ pc[r] \in {"UserLoaded", "Authorized", "done"}) =>
                  current_user[r].id = cred[r].sub /\ current_user[r].is_active
            /\ pc[r] = "Rejected" => movie[r] = NoMovie)
    /\ [][\A r \in Requests :
            /\ (pc[r] = "TokenVerified" /\ Steps(r) /\ ~UserIsActive(user_id[r])) =>
                  pc'[r] = "Rejected" /\ movies' = movies
            /\ pc[r] = "Rejected" => pc'[r] = "Rejected"
            /\ (pc[r] = "idle" /\ op'[r] = "login"
                /\ ~\E u \in users : u.email = arg'[r].email /\ u.is_active) =>
                  resp'[r].status = 401 /\ issued' = issued]_vars

\* C3 witness: a request was rejected at the user lookup although its token
\* is one the service issued and still verifies; its subject is inactive.
C3_Witness ==
    \E r \in Requests :
       /\ pc[r] = "Rejected" /\ resp[r].status = 404
       /\ \E i \in issued : i.tok = cred[r]
       /\ jwt_decode_ok(cred[r], clock)
       /\ ~UserIsActive(cred[r].sub)

\* A bearer credential create_movie may accept at instant now: a JWT signed
\* with the service's key and algorithm, not expired, with a subject.
ValidBearer(c, now) ==
    /\ c.kind = "jwt" /\ c.key = SECRET_KEY /\ c.alg = ALGORITHM
    /\ now < c.exp * TicksPerSecond
    /\ c.sub # 0

\* The movie rows are the initial one and those the create_movie handlers
\* inserted; a rejected request inserted none and stays rejected.
OnlyHandlersPersist ==
    /\ [](\A r \in Requests : pc[r] = "Rejected" => movie[r] = NoMovie)
    /\ []({m.id : m \in movies} =
            {1} \cup {movie[r].id : r \in {q \in Requests : op[q] = "create_movie" /\ pc[q] = "done"}})
    /\ [][\A r \in Requests : pc[r] = "Rejected" => pc'[r] = "Rejected"]_vars

C5_CreateReturnsRecord ==
    \A r \in Requests :
       (op[r] = "create_movie" /\ pc[r] = "done") =>
          /\ movie[r].user_id = current_user[r].id
          /\ \E m \in movies : m.id = movie[r].id /\ m.user_id = current_user[r].id
                               /\ m.created_at = movie[r].created_at
          /\ resp[r].status = 200
          /\ resp[r].body.kind = "movie"
          /\ resp[r].body.row.id = movie[r].id

\* The order of the middleware's states, then the handler's end.
PipelineRank(p) ==
    CASE p = "idle" -> 0
      [] p = "TokenExtracted" -> 1
      [] p = "TokenVerified" -> 2
      [] p = "UserLoaded" -> 3
      [] p = "Authorized" -> 4
      [] OTHER -> 5

\* What holds of a create_movie request at each state of the pipeline: past
\* the verification its token verified and named the subject looked up; the
\* user row is held only past the lookup; the handler has inserted only
\* after the user row was loaded.
PipelineOrdered ==
    \A r \in Requests :
       op[r] = "create_movie" =>
          /\ pc[r] \in {"TokenVerified", "UserLoaded", "Authorized", "done"} =>
                /\ cred[r].kind = "jwt" /\ cred[r].key = SECRET_KEY /\ cred[r].alg = ALGORITHM
                /\ user_id[r] = cred[r].sub /\ user_id[r] # 0
          /\ current_user[r] # NoUser <=> pc[r] \in {"UserLoaded", "Authorized", "done"}
          /\ current_user[r] # NoUser => current_user[r].id = user_id[r]
          /\ movie[r] # NoMovie <=> pc[r] = "done"

\* A create_movie request moves one state forward or to Rejected, from
\* Rejected nowhere, and a rejection answers missingStatus for a request
\* without bearer credential, 401 for a token that does not verify and 404
\* for a subject with no active user row.
PipelineStep(missingStatus) ==
    \A r \in Requests :
       (op'[r] = "create_movie" /\ Steps(r)) =>
          /\ pc[r] # "Rejected" /\ pc[r] # "done"
          /\ \/ pc'[r] # "Rejected" /\ PipelineRank(pc'[r]) = PipelineRank(pc[r]) + 1
             \/ pc'[r] = "Rejected" /\ pc[r] \in {"idle", "TokenExtracted", "TokenVerified"}
          /\ pc'[r] = "Rejected" =>
                /\ pc[r] = "idle" => resp'[r].status \in missingStatus
                /\ pc[r] = "TokenExtracted" => resp'[r].status = 401
                /\ pc[r] = "TokenVerified" => resp'[r].status = 404
          /\ pc'[r] # "Rejected" /\ pc'[r] # "done" => resp'[r] = NoResp
          /\ current_user'[r] # current_user[r] => pc[r] = "TokenVerified"
          /\ movies' # movies => pc[r] = "Authorized"

RowAfter(m) == CHOOSE n \in movies' : n.id = m.id

\* C10: a movie's views_count is 0 when the row is created, never decreases,
\* and changes only in the update step of a get_movie request that had
\* found that movie, by 1; every other step of every handler leaves the
\* counters of the existing movies as they are.
C10_ViewsFrame ==
    [][/\ \A m \in movies :
             /\ \E n \in movies' : n.id = m.id
             /\ RowAfter(m).views_count >= m.views_count
             /\ RowAfter(m).views_count # m.views_count =>
                   /\ RowAfter(m).views_count = m.views_count + 1
                   /\ \E r \in Requests :
                         /\ op[r] = "get_movie" /\ pc[r] = "get_movie_update" /\ pc'[r] = "done"
                         /\ movie[r].id = m.id /\ arg[r].movie_id = m.id
       /\ \A n \in movies' : (~\E m \in movies : m.id = n.id) => n.views_count = 0]_vars

\* C10 witness: a movie was created and still has 0 views, and another movie
\* has been viewed.
C10_Witness ==
    /\ \E m \in movies : m.id # 1 /\ m.views_count = 0
    /\ \E m \in movies : m.views_count > initial_views

\* C8: a call acquires one connection and has released it when it returns
\* or raises, so a caller holds none outside a running call, in particular
\* between two of its calls; with no call in flight none is checked out; and
\* never more than max_size are checked out.
C8_ScopedAcquisition ==
    /\ \A k \in Callers : held[k] = (IF kpc[k] = "running" THEN 1 ELSE 0)
    /\ CheckedOut <= max_size
    /\ ((\A k \in Callers : kpc[k] \in {"idle", "returned", "raised"}) /\ others = 0) =>
           CheckedOut = 0

\* C8 witness: the pool is exhausted, one caller waits for a connection
\* after an earlier call of its own, and another caller's statement failed.
C8_Witness ==
    /\ CheckedOut = max_size
    /\ \E k \in Callers : kpc[k] = "acquiring" /\ kcalls[k] > 0
    /\ \E k \in Callers : kpc[k] = "raised"

====
